---- MODULE Spec2Model ----
(***************************************************************************)
(* Model of the Tangem diagnostic scripts:                                 *)
(*   verify_tangem_signature.py  verify_signature_recovery and its caller  *)
(*   test_all_wallets.py         derive_address_from_public_key, main      *)
(*   test_key_derivation.py      derive_address_from_public_key            *)
(* Text is a sequence of code points, bytes a sequence of numbers in       *)
(* 0..255.  The eth_keys / eth_utils library calls are deterministic       *)
(* functions of their byte inputs, given here by small stand-ins that keep *)
(* their shape (lengths, failure cases, dependence on the input bytes).    *)
(***************************************************************************)
EXTENDS Integers, Sequences, FiniteSets, TLC

VARIABLES
    signature_hex,    \* argument, rebound at line 25 when the prefix is cut
    hash_candidates,  \* argument: ordered (name, hash_bytes) items of the dict
    expected_address, \* argument: text
    pc,               \* position in verify_signature_recovery / main
    ci,               \* index of the candidate of the outer loop (line 43)
    vi,               \* index into the inner loop's list [27, 28] (line 49)
    trials,           \* the recovery trials attempted so far, in order
    result,           \* value returned by verify_signature_recovery
    report,           \* branch of main taken on the result (line 126)
    script,           \* which script's derive_address_from_public_key runs
    public_key_hex,   \* argument of derive_address_from_public_key
    compressed,       \* keyword argument of test_key_derivation's version
    key,              \* the point and encoding public_key_hex was built from
    dpc,              \* position in derive_address_from_public_key
    keccak_input,     \* the bytes handed to keccak (line 34), <<>> if none
    derived,          \* value returned by derive_address_from_public_key
    wallets,          \* main of test_all_wallets.py: the (name, key) items
    target_address,   \* main: the address looked for (line 51)
    wi,               \* main: index of the wallet the loop of line 69 is at
    derived_address,  \* main: the value derived for the last wallet (line 74)
    matches_found,    \* main: the list of line 67
    wpc,              \* main: position in the scan
    analysis          \* main: branch taken at line 89

svars == <<signature_hex, hash_candidates, expected_address, pc, ci, vi,
           trials, result, report>>
dvars == <<script, public_key_hex, compressed, key, dpc, keccak_input, derived>>
wvars == <<wallets, target_address, wi, derived_address, matches_found, wpc, analysis>>
vars == <<signature_hex, hash_candidates, expected_address, pc, ci, vi,
          trials, result, report,
          script, public_key_hex, compressed, key, dpc, keccak_input, derived,
          wallets, target_address, wi, derived_address, matches_found, wpc, analysis>>

(***************************************************************************)
(* Bounds                                                                  *)
(***************************************************************************)
MaxCands == 2

MaxWallets == 3

(***************************************************************************)
(* Text and bytes                                                          *)
(***************************************************************************)
\* Python's None: the empty sequence, which no text, bytes or tuple below equals
None == <<>>

\* main of test_all_wallets.py is not running
ScanIdle ==
    /\ wallets = <<>>
    /\ target_address = <<>>
    /\ wi = 0
    /\ derived_address = None
    /\ matches_found = <<>>
    /\ wpc = "idle"
    /\ analysis = None

Rep(c, n) == [i \in 1..n |-> c]

\* the characters "0".."9", "a".."f" as code points
HexDigits == <<48, 49, 50, 51, 52, 53, 54, 55, 56, 57, 97, 98, 99, 100, 101, 102>>

\* the text "0x"
Prefix0x == <<48, 120>>

\* str.lower() on one character
LowerChar(c) == IF c >= 65 /\ c <= 90 THEN c + 32 ELSE c

\* str.upper() on one character
UpperChar(c) == IF c >= 97 /\ c <= 122 THEN c - 32 ELSE c

Lower(t) == [i \in 1..Len(t) |-> LowerChar(t[i])]

Upper(t) == [i \in 1..Len(t) |-> UpperChar(t[i])]

IsHexChar(c) == (c >= 48 /\ c <= 57) \/ (c >= 97 /\ c <= 102) \/ (c >= 65 /\ c <= 70)

HexVal(c) == IF c <= 57 THEN c - 48 ELSE IF c >= 97 THEN c - 87 ELSE c - 55

IsHexText(t) == \A i \in 1..Len(t) : IsHexChar(t[i])

\* str.startswith('0x')
StartsWith0x(t) == Len(t) >= 2 /\ SubSeq(t, 1, 2) = Prefix0x

\* the slice t[2:]
Strip0x(t) == IF StartsWith0x(t) THEN SubSeq(t, 3, Len(t)) ELSE t

\* bytes.fromhex: defined when FromHexOk
FromHexOk(t) == Len(t) % 2 = 0 /\ IsHexText(t)

FromHex(t) == [i \in 1..(Len(t) \div 2) |-> 16 * HexVal(t[2 * i - 1]) + HexVal(t[2 * i])]

\* bytes.hex(): lower-case text
ToHex(b) ==
    [i \in 1..(2 * Len(b)) |->
        IF i % 2 = 1 THEN HexDigits[(b[(i + 1) \div 2] \div 16) + 1]
                     ELSE HexDigits[(b[i \div 2] % 16) + 1]]

RECURSIVE SumBytes(_, _)
SumBytes(b, n) == IF n = 0 THEN 0 ELSE (SumBytes(b, n - 1) + n * b[n]) % 65536

\* eth_utils.keccak: 32 bytes depending on the length and on every input byte
keccak(b) ==
    LET h == (SumBytes(b, Len(b)) + 131 * Len(b)) % 65536
    IN  [i \in 1..32 |-> (h * (2 * i + 1) + (h \div 256) + 7 * i) % 256]

(***************************************************************************)
(* eth_keys stand-ins used by verify_signature_recovery                    *)
(***************************************************************************)
\* secp256k1 group order, as 64 hex digits
CurveOrderHex ==
    Rep(102, 31) \o <<101>> \o
    <<98, 97, 97, 101, 100, 99, 101, 54, 97, 102, 52, 56, 97, 48, 51, 98, 98, 102, 100, 50, 53, 101, 56, 99, 100, 48, 51, 54, 52, 49, 52, 49>>

\* a < b for two hex texts of the same length
LessHex(a, b) ==
    \E i \in 1..Len(a) :
        /\ HexVal(a[i]) < HexVal(b[i])
        /\ \A j \in 1..(i - 1) : HexVal(a[j]) = HexVal(b[j])

\* int(t, 16) returns a number
IntParses(t) == Len(t) > 0 /\ IsHexText(t)

\* keys.Signature validates 0 < value < N for r and s (t is hex text)
InRange(t) ==
    /\ \E i \in 1..Len(t) : HexVal(t[i]) # 0
    /\ LessHex(t, CurveOrderHex)

AddrA == <<225, 4, 137, 42>> \o Rep(188, 16)

AddrB == <<159, 225, 59, 4>> \o Rep(107, 16)

\* a raised exception, in place of a value
Failed == <<-1>>

\* Signature(vrs).recover_public_key_from_msg_hash(hash_bytes), then the
\* 20 address bytes of the key: Failed where the library raises
RecoverAddress(r_hex, s_hex, recovery_id, hash_bytes) ==
    IF ~IntParses(r_hex) \/ ~IntParses(s_hex) THEN Failed
    ELSE IF ~InRange(r_hex) \/ ~InRange(s_hex) THEN Failed
    ELSE IF Len(hash_bytes) # 32 THEN Failed
    ELSE CASE hash_bytes[1 + recovery_id] = 0 -> Failed
           [] hash_bytes[1 + recovery_id] = 1 -> AddrA
           [] OTHER -> AddrB

\* PublicKey.to_checksum_address(): 0x, then the hex digits, a letter being
\* upper-cased where the digest of the lower-case hex text has a high nibble
to_checksum_address(addr) ==
    LET low == ToHex(addr)
        dig == keccak(low)
        nib(i) == IF i % 2 = 1 THEN dig[(i + 1) \div 2] \div 16 ELSE dig[i \div 2] % 16
    IN  Prefix0x \o [i \in 1..Len(low) |-> IF nib(i) >= 8 THEN UpperChar(low[i]) ELSE low[i]]

(***************************************************************************)
(* verify_signature_recovery                                               *)
(***************************************************************************)
SigHexLen == 130

LengthOkStrictV(sig) ==
    /\ Len(sig) = SigHexLen
    /\ Lower(SubSeq(sig, 129, 130)) \in {<<49, 98>>, <<49, 99>>, <<48, 48>>, <<48, 49>>}

\* line 27: the only check made on the signature text before the loops
LengthOk(sig) == Len(sig) = SigHexLen

r_hex == SubSeq(signature_hex, 1, 64)

s_hex == SubSeq(signature_hex, 65, 128)

v_hex == SubSeq(signature_hex, 129, 130)

ParityValuesReversed == <<28, 27>>

\* line 49: for v_int in [27, 28]
ParityValues == <<27, 28>>

\* lines 52-63 for candidate c and v_int: the recovered address text, or Failed
TrialOutcome(c, v_int) ==
    LET a == RecoverAddress(r_hex, s_hex, v_int - 27, hash_candidates[c].hash_bytes)
    IN  IF a = Failed THEN Failed ELSE to_checksum_address(a)

\* line 67
AddressMatch(recovered_address, expected) == Lower(recovered_address) = Lower(expected)

MoreCandidatesOffByOne(c) == c < Len(hash_candidates)

\* line 43: the outer loop has an item left
MoreCandidates(c) == c <= Len(hash_candidates)

\* next position of the two loops after the trial (c, v)
Advance(c, v) ==
    IF v < Len(ParityValues) THEN [pc |-> "loop", ci |-> c, vi |-> v + 1]
    ELSE [pc |-> "loop", ci |-> c + 1, vi |-> 1]

AfterRecoveredNoReturn(matched, c, v) == Advance(c, v)

\* lines 67-69: return on a match, otherwise go on with the inner loop
AfterRecovered(matched, c, v) ==
    IF matched THEN [pc |-> "returned", ci |-> c, vi |-> v] ELSE Advance(c, v)

AfterFailedOuterOnly(c, v) == [pc |-> "loop", ci |-> c + 1, vi |-> 1]

\* lines 71-72: the inner except reports the failure, the inner loop goes on
AfterFailed(c, v) == Advance(c, v)

\* lines 24-29
Parse ==
    /\ pc = "start"
    /\ signature_hex' = Strip0x(signature_hex)
    /\ IF LengthOk(signature_hex')
          THEN /\ pc' = "loop"
               /\ ci' = 1
               /\ vi' = 1
               /\ result' = result
          ELSE /\ pc' = "returned"
               /\ result' = None
               /\ UNCHANGED <<ci, vi>>
    /\ UNCHANGED <<hash_candidates, expected_address, trials, report>>
    /\ UNCHANGED dvars
    /\ UNCHANGED wvars

\* lines 49-72: one pass of the inner loop body
Trial ==
    /\ pc = "loop"
    /\ MoreCandidates(ci)
    /\ LET v_int == ParityValues[vi]
           out == TrialOutcome(ci, v_int)
           matched == out # Failed /\ AddressMatch(out, expected_address)
           nxt == IF out = Failed THEN AfterFailed(ci, vi)
                                  ELSE AfterRecovered(matched, ci, vi)
       IN  /\ trials' = Append(trials, [cand |-> ci, v |-> v_int, outcome |-> out])
           /\ result' = IF matched THEN <<hash_candidates[ci].name, v_int, out>> ELSE result
           /\ pc' = nxt.pc
           /\ ci' = nxt.ci
           /\ vi' = nxt.vi
    /\ UNCHANGED <<signature_hex, hash_candidates, expected_address, report>>
    /\ UNCHANGED dvars
    /\ UNCHANGED wvars

\* lines 79-80
Exhausted ==
    /\ pc = "loop"
    /\ ~MoreCandidates(ci)
    /\ result' = None
    /\ pc' = "returned"
    /\ UNCHANGED <<signature_hex, hash_candidates, expected_address, ci, vi, trials, report>>
    /\ UNCHANGED dvars
    /\ UNCHANGED wvars

\* main, lines 126-147: if result: ... else: ...
Report ==
    /\ pc = "returned"
    /\ report' = IF result # None THEN "match" ELSE "verification_failed"
    /\ pc' = "done"
    /\ UNCHANGED <<signature_hex, hash_candidates, expected_address, ci, vi, trials, result>>
    /\ UNCHANGED dvars
    /\ UNCHANGED wvars

(***************************************************************************)
(* derive_address_from_public_key                                          *)
(***************************************************************************)
\* the curve equation has a solution for this X (eth_keys decompression)
HasY(x) == x[32] # 255

\* the Y of the given parity for X
CurveY(x, par) ==
    [i \in 1..32 |-> IF i = 32 THEN 2 * ((x[1] + x[2]) % 100) + par
                               ELSE (3 * x[i] + i) % 256]

\* keys.PublicKey.from_compressed_bytes(b) accepts these 33 bytes
DecompressOk(b) == Len(b) = 33 /\ b[1] \in {2, 3} /\ HasY(SubSeq(b, 2, 33))

\* keys.PublicKey.from_compressed_bytes(b).to_bytes(): the 64 bytes X || Y
Decompress(b) == SubSeq(b, 2, 33) \o CurveY(SubSeq(b, 2, 33), b[1] - 2)

RECURSIVE DecimalText(_)
\* str(n) for n >= 0
DecimalText(n) ==
    IF n < 10 THEN <<48 + n>> ELSE Append(DecimalText(n \div 10), 48 + (n % 10))

\* "Invalid length: "
InvalidLengthPrefix ==
    <<73, 110, 118, 97, 108, 105, 100, 32, 108, 101, 110, 103, 116, 104, 58, 32>>

\* " chars"
CharsSuffix == <<32, 99, 104, 97, 114, 115>>

\* "Invalid public key length: "
InvalidKeyLengthPrefix ==
    <<73, 110, 118, 97, 108, 105, 100, 32, 112, 117, 98, 108, 105, 99, 32,
      107, 101, 121, 32, 108, 101, 110, 103, 116, 104, 58, 32>>

\* "Error: " (the library's message follows; it is left out)
ErrorText == <<69, 114, 114, 111, 114, 58, 32>>

\* lines 29-39 of test_all_wallets.py (26-36 of test_key_derivation.py):
\* the value returned and the bytes handed to keccak
HashAndFormat(uncompressed_bytes) ==
    LET fed == IF uncompressed_bytes[1] = 4
                  THEN SubSeq(uncompressed_bytes, 2, Len(uncompressed_bytes))
                  ELSE uncompressed_bytes
        hash_result == keccak(fed)
        address == SubSeq(hash_result, Len(hash_result) - 19, Len(hash_result))
    IN  [ret |-> Prefix0x \o ToHex(address), fed |-> fed]

Raised == [ret |-> ErrorText, fed |-> <<>>]

\* test_all_wallets.py, lines 10-42
derive_address_from_public_key(pk) ==
    LET hex == Strip0x(pk)
    IN  IF Len(hex) = 66 THEN
            IF ~FromHexOk(hex) THEN Raised
            ELSE IF ~DecompressOk(FromHex(hex)) THEN Raised
            ELSE HashAndFormat(Decompress(FromHex(hex)))
        ELSE IF Len(hex) = 128 THEN
            IF ~FromHexOk(hex) THEN Raised
            ELSE HashAndFormat(<<4>> \o FromHex(hex))
        ELSE IF Len(hex) = 130 THEN
            IF ~FromHexOk(hex) THEN Raised
            ELSE HashAndFormat(FromHex(hex))
        ELSE [ret |-> InvalidLengthPrefix \o DecimalText(Len(hex)) \o CharsSuffix,
              fed |-> <<>>]

\* test_key_derivation.py, lines 10-39
derive_address_from_public_key_kd(pk, comp) ==
    LET hex == Strip0x(pk)
    IN  IF comp /\ Len(hex) = 66 THEN
            IF ~FromHexOk(hex) THEN Raised
            ELSE IF ~DecompressOk(FromHex(hex)) THEN Raised
            ELSE HashAndFormat(Decompress(FromHex(hex)))
        ELSE IF Len(hex) = 130 THEN
            IF ~FromHexOk(hex) THEN Raised
            ELSE HashAndFormat(FromHex(hex))
        ELSE [ret |-> InvalidKeyLengthPrefix \o DecimalText(Len(hex)), fed |-> <<>>]

\* a call of test_all_wallets.py's function (line 74)
DeriveAllWallets ==
    /\ dpc = "call"
    /\ script = "test_all_wallets"
    /\ LET out == derive_address_from_public_key(public_key_hex)
       IN  /\ derived' = out.ret
           /\ keccak_input' = out.fed
    /\ dpc' = "done"
    /\ UNCHANGED <<script, public_key_hex, compressed, key>>
    /\ UNCHANGED svars
    /\ UNCHANGED wvars

\* a call of test_key_derivation.py's function (line 69)
DeriveKeyDerivation ==
    /\ dpc = "call"
    /\ script = "test_key_derivation"
    /\ LET out == derive_address_from_public_key_kd(public_key_hex, compressed)
       IN  /\ derived' = out.ret
           /\ keccak_input' = out.fed
    /\ dpc' = "done"
    /\ UNCHANGED <<script, public_key_hex, compressed, key>>
    /\ UNCHANGED svars
    /\ UNCHANGED wvars

(***************************************************************************)
(* Inputs of the search                                                    *)
(***************************************************************************)
RHexOk == <<50, 99>> \o Rep(97, 62)

SHexOk == <<48, 97>> \o Rep(49, 62)

RHexZero == Rep(48, 64)

RHexHigh == Rep(102, 64)

RHexBad == <<122, 122>> \o Rep(48, 62)

\* v = 27, 28, 29, 0, 1
VTexts == {<<49, 98>>, <<49, 99>>, <<49, 100>>, <<48, 48>>, <<48, 49>>}

CanonicalSignature == Prefix0x \o RHexOk \o SHexOk \o <<49, 98>>

Signatures ==
    {Prefix0x \o RHexOk \o SHexOk \o v : v \in VTexts}
    \cup {RHexOk \o SHexOk \o <<49, 99>>,
          Upper(RHexOk \o SHexOk \o <<49, 99>>),
          Prefix0x \o RHexZero \o SHexOk \o <<49, 98>>,
          Prefix0x \o RHexOk \o RHexHigh \o <<49, 98>>,
          Prefix0x \o RHexBad \o SHexOk \o <<49, 99>>,
          Prefix0x \o RHexOk \o SHexOk,
          RHexOk \o SHexOk \o <<49, 99, 48, 48>>}

\* the names of the candidates, in the order main inserts them (lines 99-108)
CandNames ==
    <<"Raw safeTxHash", "SHA256(safeTxHash)", "SHA256(SHA256(safeTxHash))",
      "Keccak256(safeTxHash)", "Personal Sign Format">>

\* 32-byte digests; the first two bytes decide what each parity recovers to
Hashes == {<<o[1], o[2]>> \o Rep(90, 30) : o \in {<<0, 0>>, <<0, 1>>, <<2, 1>>, <<1, 1>>, <<2, 2>>}}

RECURSIVE HashSeqs(_)
HashSeqs(n) ==
    IF n = 0 THEN {<<>>}
    ELSE HashSeqs(n - 1) \cup
         {Append(q, h) : q \in {p \in HashSeqs(n - 1) : Len(p) = n - 1}, h \in Hashes}

CandidateSeqs ==
    {[i \in 1..Len(q) |-> [name |-> CandNames[i], hash_bytes |-> q[i]]] : q \in HashSeqs(MaxCands)}

CanonicalExpected == Prefix0x \o ToHex(AddrA)

ExpectedTexts ==
    {CanonicalExpected,
     to_checksum_address(AddrA),
     Upper(CanonicalExpected),
     ToHex(AddrA)}

\* every signature with the canonical expected address, and every form of
\* the expected address with the canonical signature
SearchInputs ==
    {[sig |-> g, exp |-> CanonicalExpected] : g \in Signatures}
    \cup {[sig |-> CanonicalSignature, exp |-> e] : e \in ExpectedTexts}

NoKey == [x |-> <<>>, y |-> <<>>, par |-> 0, enc |-> "none"]

DeriveIdle ==
    /\ script = "none"
    /\ public_key_hex = <<>>
    /\ compressed = TRUE
    /\ key = NoKey
    /\ dpc = "idle"
    /\ keccak_input = <<>>
    /\ derived = None

Init ==
    /\ \E in \in SearchInputs :
          /\ signature_hex = in.sig
          /\ expected_address = in.exp
    /\ hash_candidates \in CandidateSeqs
    /\ pc = "start"
    /\ ci = 0
    /\ vi = 0
    /\ trials = <<>>
    /\ result = None
    /\ report = None
    /\ DeriveIdle
    /\ ScanIdle

Next == Parse \/ Trial \/ Exhausted \/ Report

Spec == Init /\ [][Next]_vars

(***************************************************************************)
(* Inputs of the derivation                                                *)
(***************************************************************************)
\* X coordinates: the first byte varies (0x02, 0x03, 0x04, 0x2c)
KeyXs == {<<b>> \o Rep(111, 30) \o <<223>> : b \in {2, 3, 4, 44}}

\* an X with no point on the curve
OffCurveX == <<44>> \o Rep(111, 30) \o <<255>>

Points == {[x |-> x, y |-> CurveY(x, par), par |-> par] : x \in KeyXs, par \in {0, 1}}

Encodings == {"compressed", "prefixed", "raw"}

\* the bytes of point p in an encoding
Encode(p, enc) ==
    CASE enc = "compressed" -> <<2 + p.par>> \o p.x
      [] enc = "prefixed" -> <<4>> \o p.x \o p.y
      [] enc = "raw" -> p.x \o p.y
      [] enc = "lead05" -> <<5>> \o p.x \o p.y
      [] enc = "lead02" -> <<2>> \o p.x \o p.y
      [] enc = "compressed05" -> <<5>> \o p.x
      [] enc = "offcurve" -> <<2 + p.par>> \o OffCurveX
      [] enc = "short" -> SubSeq(p.x, 1, 10)

AllEncodings ==
    Encodings \cup {"lead05", "lead02", "compressed05", "offcurve", "short"}

\* the textual forms of a byte string: lower-case hex, 0x-prefixed, upper-case
TextForms(b) == {ToHex(b), Prefix0x \o ToHex(b), Upper(ToHex(b))}

InitDerive ==
    /\ \E p \in Points, enc \in AllEncodings :
          /\ key = [x |-> p.x, y |-> p.y, par |-> p.par, enc |-> enc]
          /\ public_key_hex \in TextForms(Encode(p, enc))
                                  \cup {<<122>> \o Tail(ToHex(Encode(p, enc)))}
    /\ \/ script = "test_all_wallets" /\ compressed = TRUE
       \/ script = "test_key_derivation" /\ compressed \in BOOLEAN
    /\ dpc = "call"
    /\ keccak_input = <<>>
    /\ derived = None
    /\ signature_hex = <<>>
    /\ hash_candidates = <<>>
    /\ expected_address = <<>>
    /\ pc = "idle"
    /\ ci = 0
    /\ vi = 0
    /\ trials = <<>>
    /\ result = None
    /\ report = None
    /\ ScanIdle

NextDerive == DeriveAllWallets \/ DeriveKeyDerivation

SpecDerive == InitDerive /\ [][NextDerive]_vars

(***************************************************************************)
(* main of test_all_wallets.py: the scan of the wallet table               *)
(***************************************************************************)
IsMatchCaseSensitive(derived_text, target) == derived_text = target

\* line 78: derived_address is always a str, so the comparison decides
IsMatch(derived_text, target) == Lower(derived_text) = Lower(target)

\* lines 69-84: one pass of the loop over the wallets
ScanWallet ==
    /\ wpc = "scan"
    /\ wi <= Len(wallets)
    /\ LET wallet_name == wallets[wi].name
           public_key == wallets[wi].public_key
           d == derive_address_from_public_key(public_key).ret
       IN  /\ derived_address' = d
           /\ matches_found' = IF IsMatch(d, target_address)
                                  THEN Append(matches_found, <<wallet_name, public_key, d>>)
                                  ELSE matches_found
    /\ wi' = wi + 1
    /\ UNCHANGED <<wallets, target_address, wpc, analysis>>
    /\ UNCHANGED svars
    /\ UNCHANGED dvars

\* lines 89-104, after the loop: if matches_found: ... else: ...
ScanReport ==
    /\ wpc = "scan"
    /\ wi > Len(wallets)
    /\ analysis' = IF matches_found # <<>> THEN "found" ELSE "no_match"
    /\ wpc' = "done"
    /\ UNCHANGED <<wallets, target_address, wi, derived_address, matches_found>>
    /\ UNCHANGED svars
    /\ UNCHANGED dvars

\* the names of the wallets, in table order (lines 57-61)
WalletNames ==
    <<"Wallet[0] (Secp256k1)", "Wallet[1] (Ed25519)", "Wallet[2] (Bls12381G2Aug)",
      "Wallet[3] (Bip0340)", "Wallet[4] (Ed25519Slip0010)">>

ScanPoint ==
    LET x == <<44>> \o Rep(111, 30) \o <<223>>
    IN  [x |-> x, y |-> CurveY(x, 1), par |-> 1]

OtherPoint ==
    LET x == <<3>> \o Rep(111, 30) \o <<223>>
    IN  [x |-> x, y |-> CurveY(x, 0), par |-> 0]

\* key texts of the table: a compressed key, the same point with its 0x04
\* prefix, another point, a 32-byte key of another curve (64 characters),
\* and a compressed X with no point on the curve
WalletKeys ==
    {ToHex(Encode(ScanPoint, "compressed")),
     ToHex(Encode(ScanPoint, "prefixed")),
     ToHex(Encode(OtherPoint, "compressed")),
     ToHex(ScanPoint.x),
     ToHex(Encode(ScanPoint, "offcurve"))}

RECURSIVE KeySeqs(_)
KeySeqs(n) ==
    IF n = 0 THEN {<<>>}
    ELSE KeySeqs(n - 1) \cup
         {Append(q, k) : q \in {p \in KeySeqs(n - 1) : Len(p) = n - 1}, k \in WalletKeys}

WalletTables ==
    {[i \in 1..Len(q) |-> [name |-> WalletNames[i], public_key |-> q[i]]] : q \in KeySeqs(MaxWallets)}

\* the address of ScanPoint, as the scripts print it
ScanAddress == derive_address_from_public_key(ToHex(Encode(ScanPoint, "compressed"))).ret

\* the target in lower case and with upper-case hex digits
Targets == {ScanAddress, Prefix0x \o Upper(Strip0x(ScanAddress))}

InitScan ==
    /\ wallets \in WalletTables
    /\ target_address \in Targets
    /\ wi = 1
    /\ derived_address = None
    /\ matches_found = <<>>
    /\ wpc = "scan"
    /\ analysis = None
    /\ signature_hex = <<>>
    /\ hash_candidates = <<>>
    /\ expected_address = <<>>
    /\ pc = "idle"
    /\ ci = 0
    /\ vi = 0
    /\ trials = <<>>
    /\ result = None
    /\ report = None
    /\ DeriveIdle

NextScan == ScanWallet \/ ScanReport

SpecScan == InitScan /\ [][NextScan]_vars

(***************************************************************************)
(* Properties of the recovery search                                       *)
(***************************************************************************)
NumCands == Len(hash_candidates)

Returned == pc \in {"returned", "done"}

\* the k-th trial of the documented order: candidates outer, parity 0 then 1
OrderCand(k) == (k + 1) \div 2

OrderV(k) == 27 + ((k + 1) % 2)

\* the k-th trial of the documented order recovers to the expected address
OrderMatches(k) ==
    LET out == TrialOutcome(OrderCand(k), OrderV(k))
    IN  out # Failed /\ AddressMatch(out, expected_address)

\* the k-th attempted trial is the k-th trial of the documented order
InOrder(k) == trials[k].cand = OrderCand(k) /\ trials[k].v = OrderV(k)

LoggedMatch(k) ==
    trials[k].outcome # Failed /\ AddressMatch(trials[k].outcome, expected_address)

\* C1: a result other than None names the earliest trial, in the order
\* candidates outer and parity 0 then 1, whose recovered address equals the
\* expected address, and carries that trial's recovered address.
C1_EarliestMatchReported ==
    (Returned /\ result # None) =>
        \E k \in 1..(2 * NumCands) :
            /\ result = <<hash_candidates[OrderCand(k)].name, OrderV(k),
                          TrialOutcome(OrderCand(k), OrderV(k))>>
            /\ OrderMatches(k)
            /\ \A j \in 1..(k - 1) : ~OrderMatches(j)

\* the search returned (A, parity 1) although the later candidate B matches
\* on both parities
C1_Witness ==
    /\ pc = "done"
    /\ NumCands >= 2
    /\ result # None
    /\ result[1] = CandNames[1]
    /\ result[2] = 28
    /\ OrderMatches(3)
    /\ OrderMatches(4)

\* C3: a failed trial ends that trial only: unless it is the last trial of
\* the order, the next trial of the order is attempted after it, and a match
\* at any trial is found although trials failed.
C3_FailureAbsorbed ==
    (Returned /\ Len(signature_hex) = SigHexLen) =>
        /\ \A k \in 1..Len(trials) :
              (trials[k].outcome = Failed /\ k < 2 * NumCands) =>
                  (Len(trials) > k /\ InOrder(k + 1))
        /\ (\E k \in 1..(2 * NumCands) : OrderMatches(k)) => result # None

\* both trials of the first candidate failed and the second candidate matched
C3_Witness ==
    /\ pc = "done"
    /\ Len(trials) >= 3
    /\ trials[1].outcome = Failed
    /\ trials[2].outcome = Failed
    /\ result # None
    /\ result[1] = CandNames[2]

\* C4: with a signature of valid length and no trial recovering to the
\* expected address, every trial of the order is attempted and the search
\* returns None.
C4_Exhaustion ==
    (Returned /\ Len(signature_hex) = SigHexLen
        /\ \A k \in 1..(2 * NumCands) : ~OrderMatches(k)) =>
        /\ result = None
        /\ Len(trials) = 2 * NumCands
        /\ \A k \in 1..Len(trials) : InOrder(k)

\* two candidates exhausted, with failed and with non-matching trials
C4_Witness ==
    /\ pc = "done"
    /\ result = None
    /\ NumCands = 2
    /\ Len(trials) = 4
    /\ \E k \in 1..4 : trials[k].outcome = Failed
    /\ \E k \in 1..4 : trials[k].outcome # Failed

\* C4, the empty candidate sequence
C4_WitnessEmpty ==
    /\ pc = "done"
    /\ Len(signature_hex) = SigHexLen
    /\ NumCands = 0
    /\ result = None

C7_InvalidLengthDistinguishable ==
    (Returned /\ Len(signature_hex) # SigHexLen) =>
        /\ trials = <<>>
        /\ result # None
        /\ (pc = "done" => report # "verification_failed")

\* the raw bytes an address text stands for: case and 0x prefix put aside
AddressBytes(text) == FromHex(Strip0x(Lower(text)))

OrderMatchesBytes(k) ==
    LET a == RecoverAddress(r_hex, s_hex, OrderV(k) - 27, hash_candidates[OrderCand(k)].hash_bytes)
    IN  a # Failed /\ a = AddressBytes(expected_address)

\* C9: the match result is that of comparing raw address bytes, whatever the
\* case of the expected address and with or without its 0x prefix.
C9_TextFormIndependent ==
    (Returned /\ Len(signature_hex) = SigHexLen) =>
        IF \E k \in 1..(2 * NumCands) : OrderMatchesBytes(k)
        THEN /\ result # None
             /\ \E k \in 1..(2 * NumCands) :
                   /\ OrderMatchesBytes(k)
                   /\ \A j \in 1..(k - 1) : ~OrderMatchesBytes(j)
                   /\ result[1] = hash_candidates[OrderCand(k)].name
                   /\ result[2] = OrderV(k)
        ELSE result = None

\* C10: the trials attempted are a prefix of (c1,0),(c1,1),(c2,0),(c2,1),...
\* of length at most twice the number of candidates, and no trial is
\* attempted after a trial that matched.
C10_ShortCircuit ==
    /\ Len(trials) <= 2 * NumCands
    /\ \A k \in 1..Len(trials) : InOrder(k)
    /\ \A k \in 1..(Len(trials) - 1) : ~LoggedMatch(k)

\* the search stopped at a match with trials of the order left untried
C10_Witness ==
    /\ pc = "done"
    /\ result # None
    /\ Len(trials) >= 1
    /\ Len(trials) < 2 * NumCands
    /\ LoggedMatch(Len(trials))

(***************************************************************************)
(* Properties of the address derivation                                    *)
(***************************************************************************)
\* the call returned at the line that formats an address (0x...)
ReturnedAddress == dpc = "done" /\ StartsWith0x(derived)

\* the bytes the input text stands for
InputBytes == FromHex(Strip0x(public_key_hex))

\* C2: the compressed, the 0x04-prefixed and the raw encoding of a point all
\* normalize to the 64 bytes X || Y, whatever the first byte of X, and
\* derive_address_from_public_key returns the same address for the three.
C2_EncodingsAgree ==
    (dpc = "done" /\ script = "test_all_wallets" /\ key.enc \in Encodings
        /\ FromHexOk(Strip0x(public_key_hex))) =>
        /\ keccak_input = key.x \o key.y
        /\ \A e \in Encodings :
              derived = derive_address_from_public_key(ToHex(Encode(key, e))).ret

\* C5: whenever an address is returned, keccak was fed exactly the 64 bytes
\* X || Y of the key, and the address is the last 20 bytes of the digest.
C5_HashOfXY ==
    ReturnedAddress =>
        /\ Len(keccak_input) = 64
        /\ key.enc \in Encodings => keccak_input = key.x \o key.y
        /\ derived = Prefix0x \o ToHex(SubSeq(keccak(keccak_input), 13, 32))
        /\ Len(derived) = 42

\* C8: a 65-byte input is accepted only with the leading byte 0x04, which
\* is cut off; with any other leading byte no address is derived.
C8_PrefixChecked ==
    (dpc = "done" /\ Len(Strip0x(public_key_hex)) = 130
        /\ FromHexOk(Strip0x(public_key_hex))) =>
        IF InputBytes[1] = 4
        THEN ReturnedAddress /\ keccak_input = SubSeq(InputBytes, 2, 65)
        ELSE ~ReturnedAddress

(***************************************************************************)
(* Properties of the wallet scan                                           *)
(***************************************************************************)
RECURSIVE MatchesOfPrefix(_)
\* the wallets among the first n of the table whose derivation reached the
\* address (keccak was fed) and gave the target up to case, in table order
MatchesOfPrefix(n) ==
    IF n = 0 THEN <<>>
    ELSE LET w == wallets[n]
             out == derive_address_from_public_key(w.public_key)
         IN  IF out.fed # <<>> /\ Lower(out.ret) = Lower(target_address)
             THEN Append(MatchesOfPrefix(n - 1), <<w.name, w.public_key, out.ret>>)
             ELSE MatchesOfPrefix(n - 1)

\* C11: after every prefix of the wallet table, matches_found holds exactly
\* the wallets processed so far, in table order, whose derivation succeeded
\* and whose address equals the target up to case; an error value is never
\* recorded, and the scan goes on to the end of the table.
C11_MatchesOfPrefix ==
    wpc \in {"scan", "done"} =>
        /\ wi >= 1
        /\ wi <= Len(wallets) + 1
        /\ matches_found = MatchesOfPrefix(wi - 1)
        /\ \A m \in 1..Len(matches_found) : StartsWith0x(matches_found[m][3])
        /\ wpc = "done" => wi = Len(wallets) + 1

\* a table of three wallets scanned to its end with a target in upper-case
\* digits: the first and the third match, the second gave an error value
C11_Witness ==
    /\ wpc = "done"
    /\ Len(wallets) = 3
    /\ target_address # Lower(target_address)
    /\ derive_address_from_public_key(wallets[2].public_key).fed = <<>>
    /\ Len(matches_found) = 2
    /\ matches_found[1][1] = WalletNames[1]
    /\ matches_found[2][1] = WalletNames[3]

====
